---- MODULE Spec2Model ----
(***************************************************************************)
(* Model of src/actions/tweet/connector/twitterAPI.py: TweetAPIConnector.  *)
(*                                                                         *)
(* __init__ reads four credentials from the environment (after             *)
(* load_dotenv), fails with a ValueError naming the missing ones, or       *)
(* builds one tweepy.Client.  connect forwards output_interface.action to  *)
(* client.create_tweet, logs the URL of the post, and has two except       *)
(* clauses.  The vendor, the message and the environment are inputs.       *)
(***************************************************************************)
EXTENDS Integers, Sequences, FiniteSets, TLC

VARIABLES
    osEnv,        \* os.environ: credential name -> value (Unset when absent)
    dotEnv,       \* contents of the .env file read by load_dotenv()
    state,        \* "Uninitialized" | "Ready"
    constructed,  \* TRUE once __init__ has run (returned or raised)
    initError,    \* exception raised by __init__, or NoExc
    client,       \* self.client: the credentials the handle was built with, or NoClient
    log,          \* lines written through logging.info / logging.error
    vendorCalls,  \* texts passed to client.create_tweet, in order
    calls         \* one record per connect invocation: its inputs and its outcome

vars == <<osEnv, dotEnv, state, constructed, initError, client, log, vendorCalls, calls>>

----------------------------------------------------------------------------
\* Bounds of the model

MaxCalls == 2

----------------------------------------------------------------------------
\* Values

Unset == "<unset>"          \* os.getenv returns None
NoClient == [absent |-> TRUE]  \* the attribute self.client was never set
NoExc == [type |-> "<none>", msg |-> <<>>]

\* the four names read at lines 37-40, in the order they are tested at 44-51
CredNames ==
    <<"TWITTER_API_KEY", "TWITTER_API_SECRET",
      "TWITTER_ACCESS_TOKEN", "TWITTER_ACCESS_TOKEN_SECRET">>

CredSet == {CredNames[i] : i \in 1..Len(CredNames)}

OsValues == {Unset, "", "v"}
FileValues == {Unset, "f"}

\* Python truthiness of an os.getenv result: None and "" are falsy
Truthy(v) == v # Unset /\ v # ""

\* load_dotenv() with override=False: a name already in os.environ (even
\* with an empty value) is kept, any other name is taken from the file
load_dotenv(env, file) ==
    [n \in CredSet |-> IF env[n] # Unset THEN env[n] ELSE file[n]]

\* variant: any(...) in place of all(...)
AllPresentAny(env) == \E n \in CredSet : Truthy(env[n])

\* all([consumer_key, consumer_secret, access_token, access_token_secret])
AllPresent(env) == \A n \in CredSet : Truthy(env[n])

\* the four "if not x: missing_vars.append(NAME)" statements, in order
RECURSIVE MissingFrom(_, _)
MissingFrom(env, i) ==
    IF i > Len(CredNames) THEN <<>>
    ELSE (IF Truthy(env[CredNames[i]]) THEN <<>> ELSE <<CredNames[i]>>)
         \o MissingFrom(env, i + 1)

\* variant: the test of consumer_key is left out
MissingVarsSkipsFirst(env) == MissingFrom(env, 2)

MissingVars(env) == MissingFrom(env, 1)

\* ', '.join(xs): the items with a separator token between neighbours
RECURSIVE Join(_, _)
Join(sep, xs) ==
    IF Len(xs) = 0 THEN <<>>
    ELSE IF Len(xs) = 1 THEN <<xs[1]>>
    ELSE <<xs[1], sep>> \o Join(sep, Tail(xs))

\* ValueError(f"Missing required Twitter API credentials: {', '.join(missing_vars)}")
MissingCredentialsError(env) ==
    [type |-> "ValueError",
     msg  |-> <<"Missing required Twitter API credentials: ">>
              \o Join(", ", MissingVars(env))]

\* tweepy.Client(consumer_key=..., consumer_secret=..., access_token=..., access_token_secret=...)
TweepyClient(env) ==
    [consumer_key        |-> env["TWITTER_API_KEY"],
     consumer_secret     |-> env["TWITTER_API_SECRET"],
     access_token        |-> env["TWITTER_ACCESS_TOKEN"],
     access_token_secret |-> env["TWITTER_ACCESS_TOKEN_SECRET"]]

----------------------------------------------------------------------------
Init ==
    /\ osEnv \in [CredSet -> OsValues]
    /\ dotEnv \in [CredSet -> FileValues]
    /\ state = "Uninitialized"
    /\ constructed = FALSE
    /\ initError = NoExc
    /\ client = NoClient
    /\ log = <<>>
    /\ vendorCalls = <<>>
    /\ calls = <<>>

\* variant: the constructor verifies the new handle with a request
ConstructProbes ==
    /\ ~constructed
    /\ constructed' = TRUE
    /\ osEnv' = load_dotenv(osEnv, dotEnv)
    /\ IF ~AllPresent(osEnv')
       THEN /\ initError' = MissingCredentialsError(osEnv')
            /\ UNCHANGED <<state, client, vendorCalls>>
       ELSE /\ client' = TweepyClient(osEnv')
            /\ state' = "Ready"
            /\ vendorCalls' = <<[client |-> client', text |-> "ping"]>>
            /\ UNCHANGED initError
    /\ UNCHANGED <<dotEnv, log, calls>>

\* TweetAPIConnector.__init__
Construct ==
    /\ ~constructed
    /\ constructed' = TRUE
    /\ osEnv' = load_dotenv(osEnv, dotEnv)
    /\ IF ~AllPresent(osEnv')
       THEN /\ initError' = MissingCredentialsError(osEnv')
            /\ UNCHANGED <<state, client>>
       ELSE /\ client' = TweepyClient(osEnv')
            /\ state' = "Ready"
            /\ UNCHANGED initError
    /\ UNCHANGED <<dotEnv, log, vendorCalls, calls>>

----------------------------------------------------------------------------
\* connect

\* names bound at module level by lines 1-11 of twitterAPI.py
ModuleGlobals ==
    {"logging", "os", "warnings", "load_dotenv",
     "ActionConfig", "ActionConnector", "TweetInput", "TweetAPIConnector"}

\* names bound inside __init__ (its parameters, the import at line 34 and
\* the assignments at lines 37-43): local to that call
InitLocals ==
    {"self", "config", "tweepy", "consumer_key", "consumer_secret",
     "access_token", "access_token_secret", "missing_vars"}

\* names bound inside connect
ConnectLocals ==
    {"self", "output_interface", "tweet_to_make", "response",
     "tweet_id", "tweet_url", "e"}

\* a name used in connect resolves in connect's locals or in the module's
\* globals; the locals of another function are not searched
ResolvesInConnect(name) == name \in ConnectLocals \cup ModuleGlobals

\* exception classes of the vendor library (tweepy.TweepyException and a subclass)
TweepyTypes == {"TweepyException", "Forbidden"}

Exc(t, m) == [type |-> t, msg |-> m]

\* the objects a caller may pass as output_interface: TweetInput carries
\* the text in .action; an object with the older .tweet field has no .action
Messages == {[action |-> "hello"], [action |-> "bye"], [tweet |-> "hello"]}

\* what client.create_tweet may do: return a response whose data holds an
\* id, return one whose data holds none, or raise
VendorOutcomes ==
    {[kind |-> "return", data |-> [id |-> "123"]],
     [kind |-> "return", data |-> [id |-> "7"]],
     [kind |-> "return", data |-> [errors |-> "none"]],
     [kind |-> "raise", exc |-> Exc("Forbidden", <<"duplicate content">>)],
     [kind |-> "raise", exc |-> Exc("TweepyException", <<"rate limit">>)],
     [kind |-> "raise", exc |-> Exc("ConnectionError", <<"timed out">>)]}

LogLine(level, text, arg) == [level |-> level, text |-> text, arg |-> arg]

\* variant: the URL is built without the status segment
TweetUrlNoStatus(tweet_id) == <<"https:", "", "twitter.com", "user", tweet_id>>

\* f"https://twitter.com/user/status/{tweet_id}", as its "/"-separated segments
TweetUrl(tweet_id) == <<"https:", "", "twitter.com", "user", "status", tweet_id>>

\* the text handed to create_tweet: text=output_interface.action
TweetText(msg) == msg.action

\* variant: the request is issued a second time
CreateTweetRetry(handle, text) ==
    <<[client |-> handle, text |-> text], [client |-> handle, text |-> text]>>

\* variant: a text that was already sent is not sent again
CreateTweetDedup(handle, text) ==
    IF \E k \in 1..Len(vendorCalls) : vendorCalls[k].text = text
    THEN <<>>
    ELSE <<[client |-> handle, text |-> text]>>

\* self.client.create_tweet(text=...) at line 80: the requests it issues
CreateTweet(handle, text) == <<[client |-> handle, text |-> text]>>

\* the statements of the try block (lines 75-83), up to the first one that
\* raises: the lines logged, the create_tweet calls made, the exception
TryBody(handle, msg, vend) ==
    IF "action" \notin DOMAIN msg
    THEN [logs |-> <<>>, sent |-> <<>>,
          exc |-> Exc("AttributeError", <<"no attribute 'action'">>)]
    ELSE LET attempt == LogLine("info", "SendThisToTwitterAPI: ", [action |-> msg.action])
             call == CreateTweet(handle, TweetText(msg))
         IN IF vend.kind = "raise"
            THEN [logs |-> <<attempt>>, sent |-> call, exc |-> vend.exc]
            ELSE IF "id" \notin DOMAIN vend.data
            THEN [logs |-> <<attempt>>, sent |-> call,
                  exc |-> Exc("KeyError", <<"'id'">>)]
            ELSE [logs |-> <<attempt,
                             LogLine("info", "Tweet sent successfully! URL: ",
                                     TweetUrl(vend.data["id"]))>>,
                  sent |-> call,
                  exc |-> NoExc]

\* variant: a handler that reports the failure and does not re-raise
ExceptClausesSwallow(e) ==
    [logs |-> <<LogLine("error", "Unexpected error while sending tweet: ", e.msg)>>,
     raised |-> NoExc]

\* the except clauses (lines 85-90) applied to an exception e of the try
\* block.  Matching the first clause evaluates the expression
\* tweepy.TweepyException in connect's scope; when the name does not
\* resolve, that evaluation raises NameError and no clause body runs.
ExceptClauses(e) ==
    IF ~ResolvesInConnect("tweepy")
    THEN [logs |-> <<>>,
          raised |-> Exc("NameError", <<"name 'tweepy' is not defined">>)]
    ELSE IF e.type \in TweepyTypes
    THEN [logs |-> <<LogLine("error", "Twitter API error while sending tweet: ", e.msg)>>,
          raised |-> e]
    ELSE [logs |-> <<LogLine("error", "Unexpected error while sending tweet: ", e.msg)>>,
          raised |-> e]

\* variant: a failed send drops the handle
ConnectDropsClient(msg, vend) ==
    /\ state = "Ready"
    /\ Len(calls) < MaxCalls
    /\ LET body == TryBody(client, msg, vend)
           handled == IF body.exc = NoExc
                      THEN [logs |-> <<>>, raised |-> NoExc]
                      ELSE ExceptClauses(body.exc)
       IN /\ log' = log \o body.logs \o handled.logs
          /\ vendorCalls' = vendorCalls \o body.sent
          /\ calls' = Append(calls, [msg |-> msg, vend |-> vend,
                                     sent |-> body.sent,
                                     logged |-> body.logs \o handled.logs,
                                     raised |-> handled.raised])
          /\ IF handled.raised = NoExc
             THEN UNCHANGED <<state, client>>
             ELSE client' = NoClient /\ state' = "Uninitialized"
    /\ UNCHANGED <<osEnv, dotEnv, constructed, initError>>

\* TweetAPIConnector.connect: one invocation.  The coroutine contains no
\* await, so it runs to completion once started.  A connector exists only
\* when __init__ returned.
Connect(msg, vend) ==
    /\ state = "Ready"
    /\ Len(calls) < MaxCalls
    /\ LET body == TryBody(client, msg, vend)
           handled == IF body.exc = NoExc
                      THEN [logs |-> <<>>, raised |-> NoExc]
                      ELSE ExceptClauses(body.exc)
       IN /\ log' = log \o body.logs \o handled.logs
          /\ vendorCalls' = vendorCalls \o body.sent
          /\ calls' = Append(calls, [msg |-> msg, vend |-> vend,
                                     sent |-> body.sent,
                                     logged |-> body.logs \o handled.logs,
                                     raised |-> handled.raised])
    /\ UNCHANGED <<osEnv, dotEnv, state, constructed, initError, client>>

Next ==
    \/ Construct
    \/ \E msg \in Messages, vend \in VendorOutcomes : Connect(msg, vend)

Spec == Init /\ [][Next]_vars

----------------------------------------------------------------------------
\* Properties

\* the credentials that are unset or empty in an environment
Missing(env) == {n \in CredSet : ~Truthy(env[n])}

\* the positions of an error message that hold a credential name
NamePositions(e) == {i \in 1..Len(e.msg) : e.msg[i] \in CredSet}

NamesListed(e) == {e.msg[i] : i \in NamePositions(e)}

CallIds == 1..Len(calls)

\* invocation i reached client.create_tweet
Reached(i) == calls[i].sent # <<>>

IsSuccessLine(l) == l.level = "info" /\ l.text = "Tweet sent successfully! URL: "

SuccessLines(i) ==
    {k \in 1..Len(calls[i].logged) : IsSuccessLine(calls[i].logged[k])}

ErrorLines(i) ==
    {k \in 1..Len(calls[i].logged) : calls[i].logged[k].level = "error"}

\* C1: when some credentials are unset or empty at construction, __init__
\* fails with a ValueError that lists each missing name once and lists no
\* present name.
C1_MissingListedExactly ==
    (constructed /\ Missing(osEnv) # {}) =>
        /\ initError.type = "ValueError"
        /\ NamesListed(initError) = Missing(osEnv)
        /\ Cardinality(NamePositions(initError)) = Cardinality(Missing(osEnv))

C1_Witness ==
    /\ constructed
    /\ Missing(osEnv) = {"TWITTER_API_SECRET", "TWITTER_ACCESS_TOKEN"}
    /\ initError.type = "ValueError"

\* C2: a client exists or a send was accepted only if all four credentials
\* were non-empty at construction; a failed construction leaves no Ready
\* adapter and no client.
C2_NoClientWithoutCredentials ==
    /\ (client # NoClient \/ calls # <<>> \/ vendorCalls # <<>>) =>
           /\ AllPresent(osEnv)
           /\ client = TweepyClient(osEnv)
           /\ \A f \in DOMAIN client : Truthy(client[f])
    /\ initError # NoExc =>
           /\ state # "Ready"
           /\ client = NoClient
           /\ calls = <<>>
           /\ vendorCalls = <<>>

C2_Witness ==
    /\ client # NoClient
    /\ calls # <<>>
    /\ \E n \in CredSet : dotEnv[n] = "f" /\ osEnv[n] = "f"

\* C3: when create_tweet raises a vendor exception, connect logs an error
\* line holding the exception's message and the caller receives an
\* exception of the same vendor type.
C3_VendorErrorLoggedAndReraised ==
    \A i \in CallIds :
        (Reached(i) /\ calls[i].vend.kind = "raise"
                    /\ calls[i].vend.exc.type \in TweepyTypes) =>
            /\ calls[i].raised.type = calls[i].vend.exc.type
            /\ \E k \in ErrorLines(i) :
                   calls[i].logged[k].arg = calls[i].vend.exc.msg

\* C4: when create_tweet raises any other exception, connect logs it on
\* the "Unexpected error" path and the caller receives that same exception.
C4_OtherErrorLoggedAndReraised ==
    \A i \in CallIds :
        (Reached(i) /\ calls[i].vend.kind = "raise"
                    /\ calls[i].vend.exc.type \notin TweepyTypes) =>
            /\ calls[i].raised = calls[i].vend.exc
            /\ \E k \in ErrorLines(i) :
                   /\ calls[i].logged[k].text = "Unexpected error while sending tweet: "
                   /\ calls[i].logged[k].arg = calls[i].vend.exc.msg

\* C5: connect returns normally exactly when the message had a text, the
\* vendor returned a response with an id and the success line was logged;
\* otherwise an exception reaches the caller and no success line is logged.
C5_FailureNeverSwallowed ==
    \A i \in CallIds :
        LET delivered == /\ "action" \in DOMAIN calls[i].msg
                         /\ calls[i].vend.kind = "return"
                         /\ "id" \in DOMAIN calls[i].vend.data
        IN /\ (calls[i].raised = NoExc) <=> delivered
           /\ delivered => SuccessLines(i) # {}
           /\ ~delivered => SuccessLines(i) = {}

C5_Witness ==
    /\ \E i \in CallIds : calls[i].vend.kind = "raise" /\ Reached(i)
                          /\ calls[i].raised # NoExc
    /\ \E i \in CallIds : calls[i].vend.kind = "return"
                          /\ "id" \notin DOMAIN calls[i].vend.data
                          /\ Reached(i) /\ calls[i].raised # NoExc

\* C6: a send whose vendor call returned id x logs one success line, whose
\* URL ends in /status/x, and the text given to the vendor is the message's
\* text field.
C6_UrlEndsInStatusId ==
    \A i \in CallIds :
        /\ Reached(i) => \A k \in 1..Len(calls[i].sent) :
                             calls[i].sent[k].text = calls[i].msg.action
        /\ calls[i].raised = NoExc =>
               /\ Cardinality(SuccessLines(i)) = 1
               /\ \A k \in SuccessLines(i) :
                      LET url == calls[i].logged[k].arg
                      IN /\ Len(url) >= 2
                         /\ url[Len(url) - 1] = "status"
                         /\ url[Len(url)] = calls[i].vend.data["id"]

C6_Witness ==
    \E i \in CallIds :
        /\ calls[i].raised = NoExc
        /\ calls[i].msg = [action |-> "hello"]
        /\ calls[i].vend.data["id"] = "123"

\* C7: with all four credentials present, __init__ takes the adapter from
\* Uninitialized to Ready with a client and raises nothing, and no
\* create_tweet request has been issued when it ends.
C7_ConstructionIsLocal ==
    [][(~constructed /\ constructed' /\ AllPresent(load_dotenv(osEnv, dotEnv))) =>
          /\ state = "Uninitialized"
          /\ state' = "Ready"
          /\ client' = TweepyClient(load_dotenv(osEnv, dotEnv))
          /\ initError' = NoExc
          /\ vendorCalls' = <<>>]_vars

C7_Witness ==
    /\ constructed
    /\ state = "Ready"
    /\ client # NoClient
    /\ calls = <<>>
    /\ vendorCalls = <<>>

\* C8: one invocation of connect issues at most one create_tweet request,
\* so n invocations issue at most n requests.
C8_AtMostOneVendorCallPerConnect ==
    /\ \A i \in CallIds : Len(calls[i].sent) <= 1
    /\ Len(vendorCalls) <= Len(calls)

C8_Witness ==
    \E i \in CallIds :
        /\ calls[i].vend.kind = "raise"
        /\ Len(calls[i].sent) = 1
        /\ Len(vendorCalls) = Len(calls)

\* the invocations that carried text t, and the requests issued with it
CallsWith(t) ==
    {i \in CallIds : "action" \in DOMAIN calls[i].msg /\ calls[i].msg.action = t}

RequestsWith(t) == {k \in 1..Len(vendorCalls) : vendorCalls[k].text = t}

Texts == {m.action : m \in {x \in Messages : "action" \in DOMAIN x}}

\* C9: every invocation with a text issues its own create_tweet request
\* with that text, also when the same text was sent before.
C9_NoDeduplication ==
    \A t \in Texts : Cardinality(RequestsWith(t)) = Cardinality(CallsWith(t))

C9_Witness ==
    \E i, j \in CallIds :
        /\ i < j
        /\ calls[i].msg = [action |-> "hello"]
        /\ calls[j].msg = [action |-> "hello"]
        /\ calls[i].raised = NoExc
        /\ calls[j].raised = NoExc
        /\ Cardinality(RequestsWith("hello")) >= 2

\* C10: once the adapter is Ready, no step changes the client or the
\* credentials or leaves Ready, and every request was issued through the
\* client built at construction.
C10_ClientFixedAfterConstruction ==
    /\ [][state = "Ready" =>
              /\ state' = "Ready"
              /\ client' = client
              /\ osEnv' = osEnv]_vars
    /\ [](\A k \in 1..Len(vendorCalls) :
              vendorCalls[k].client = client /\ client # NoClient)

C10_Witness ==
    \E i, j \in CallIds :
        /\ i < j
        /\ calls[i].raised # NoExc
        /\ Reached(j)
        /\ calls[j].sent[1].client = client
====
